---- MODULE Spec2Model ----
(***************************************************************************)
(* The development watch supervisor of ci/dev/watch.ts: three build        *)
(* watchers (and a plugin watcher when PLUGIN_DIR is set), one restartable *)
(* application server held in the `server` slot, and the cleanup routine.  *)
(*                                                                         *)
(* Every callback of the supervisor runs to completion on the single       *)
(* event-loop thread, so each callback is one action.  Child processes     *)
(* live outside the supervisor: whether and when a child exits, and with   *)
(* which code, is chosen by the environment (ProcExit).                    *)
(***************************************************************************)
EXTENDS Integers, Sequences, FiniteSets, TLC

\* ---------------------------------------------------------------- bounds
\* Most server processes ever forked in one run.
MaxServers == 2

\* ------------------------------------------------------------- constants
\* `code` of an exit event that carries no number (null), and the
\* `undefined` of cleanup's optional parameter.
NoCode == -1
\* Exit codes a child may report.
ExitCodes == {NoCode, 0, 2}

\* A line is a sequence of tokens: whitespace, the two trigger phrases and
\* other text.
SP == " "
FIN == "Finished compilation"
WATCHING == "Watching for file changes"
TXT == "x"
Tokens == {SP, FIN, WATCHING, TXT}
\* The lines a watcher may write: empty, whitespace only, plain text, and
\* each trigger phrase with text or whitespace around it.
Lines == {<<>>, <<SP>>, <<TXT>>, <<SP, FIN, TXT>>, <<TXT, WATCHING, SP>>, <<FIN, WATCHING>>}
\* Chunks a child may write on its standard error.
ErrChunks == {"e"}

\* ---------------------------------------------------------------- handles
\* A child-process handle: <<name, n>>; n numbers the forked servers.
vscode == <<"vscode", 0>>
vscodeWebExtensions == <<"vscodeWebExtensions", 0>>
tsc == <<"tsc", 0>>
plugin == <<"plugin", 0>>
\* The value of the empty server slot (`undefined`).
Undefined == <<"undefined", 0>>
Srv(n) == <<"server", n>>
Servers == {Srv(n) : n \in 1..MaxServers}
BuiltinWatchers == {vscode, vscodeWebExtensions, tsc}
Watchers == BuiltinWatchers \cup {plugin}
Handles == Watchers \cup Servers
\* The supervisor's own process, as the target of process.exit.
Self == <<"process", 0>>

VARIABLES
  pc,          \* "start": main not yet run; "running": in the event loop; "exited"
  exitCode,    \* the supervisor's exit code once pc = "exited", else NoCode
  pluginDir,   \* whether process.env.PLUGIN_DIR is set (truthy)
  spawned,     \* the watcher handles created by watch()
  nforked,     \* how many servers have been forked; Srv(1)..Srv(nforked) exist
  server,      \* the server slot: a handle or Undefined
  running,     \* the child processes alive in the operating system
  exitEvents,  \* the children whose "exit" event is emitted and not yet dispatched
  listeners,   \* the handles that have an "exit" listener of the supervisor attached
  ops,         \* every process-control call made so far, in order: <<call, handle, code>>
  out,         \* what the latest callback wrote on standard output
  err,         \* what the latest callback wrote on standard error
  ev,          \* the callback that ran latest: [kind, h, line, code]
  triggers,    \* per watcher, the lines delivered so far that contain its trigger phrase
  restartsBy   \* per watcher, the restarts its line callback has made so far

vars == <<pc, exitCode, pluginDir, spawned, nforked, server, running, exitEvents,
          listeners, ops, out, err, ev, triggers, restartsBy>>

\* ------------------------------------------------------------ line reader
RECURSIVE TrimLeft(_)
TrimLeft(l) == IF l # <<>> /\ Head(l) = SP THEN TrimLeft(Tail(l)) ELSE l

RECURSIVE TrimRight(_)
TrimRight(l) ==
  IF l # <<>> /\ l[Len(l)] = SP THEN TrimRight(SubSeq(l, 1, Len(l) - 1)) ELSE l

\* String.prototype.trim
Trim(l) == TrimRight(TrimLeft(l))

\* String.prototype.includes, for a trigger phrase
Includes(l, phrase) == \E i \in 1..Len(l) : l[i] = phrase

\* ------------------------------------------------------------ output
\* One write on an output stream.
Entry(tag, text, n) == [tag |-> tag, text |-> text, n |-> n]
\* Watcher.log(message)
Log(message) == Entry(message, <<>>, 0)
\* console.log(tag, original)
Echo(tag, original) == Entry(tag, original, 0)
\* The tag a watcher's lines are echoed with.
Tag(w) == CASE w = vscode -> "[vscode]"
            [] w = tsc -> "[tsc]"
            [] w = plugin -> "[plugin]"
            [] OTHER -> "[]"

\* One process-control call.
Op(call, h, code) == <<call, h, code>>
Kill(h) == Op("kill", h, NoCode)
RemoveAllListeners(h) == Op("removeAllListeners", h, NoCode)
Fork(h) == Op("fork", h, NoCode)
Spawn(h) == Op("spawn", h, NoCode)
On(h) == Op("on", h, NoCode)
Assign(h) == Op("assign", h, NoCode)
ProcessExit(code) == Op("exit", Self, code)

Event(kind, h, line, code) == [kind |-> kind, h |-> h, line |-> line, code |-> code]

\* ------------------------------------------------------------ initial state
Init ==
  /\ pc = "start"
  /\ exitCode = NoCode
  /\ pluginDir \in BOOLEAN
  /\ spawned = {}
  /\ nforked = 0
  /\ server = Undefined
  /\ running = {}
  /\ exitEvents = {}
  /\ listeners = {}
  /\ ops = <<>>
  /\ out = <<>>
  /\ err = <<>>
  /\ ev = Event("none", Undefined, <<>>, NoCode)
  /\ triggers = [w \in Watchers |-> 0]
  /\ restartsBy = [w \in Watchers |-> 0]

\* The spawns with the plugin watcher spawned whatever PLUGIN_DIR is.
SpawnOrderAlwaysPlugin == <<vscode, vscodeWebExtensions, tsc, plugin>>

\* ------------------------------------------------------------ startup
\* The watchers watch() spawns, in the order it spawns them.
SpawnOrder ==
  <<vscode, vscodeWebExtensions, tsc>> \o (IF pluginDir THEN <<plugin>> ELSE <<>>)

Range(f) == {f[i] : i \in DOMAIN f}

\* watch() runs to its end: every watcher is spawned, the signal handlers,
\* the exit listeners, the stderr passthroughs and the line callbacks are
\* registered, and control passes to the event loop.
Watch ==
  /\ pc = "start"
  /\ pc' = "running"
  /\ spawned' = Range(SpawnOrder)
  /\ running' = Range(SpawnOrder)
  /\ listeners' = Range(SpawnOrder)
  /\ ops' = [i \in 1..Len(SpawnOrder) |-> Spawn(SpawnOrder[i])]
            \o [i \in 1..Len(SpawnOrder) |-> On(SpawnOrder[i])]
  /\ out' = <<>>
  /\ err' = <<>>
  /\ ev' = Event("watch", Self, <<>>, NoCode)
  /\ UNCHANGED <<exitCode, pluginDir, nforked, server, exitEvents, triggers, restartsBy>>

\* main catching the error and calling watch() again instead of exiting.
WatchThrowsRetries(k) ==
  /\ pc = "start"
  /\ k \in 1..Len(SpawnOrder)
  /\ pc' = "running"
  /\ exitCode' = exitCode
  /\ spawned' = Range(SpawnOrder)
  /\ running' = Range(SpawnOrder)
  /\ listeners' = Range(SpawnOrder)
  /\ ops' = [i \in 1..(k - 1) |-> Spawn(SpawnOrder[i])]
            \o [i \in 1..Len(SpawnOrder) |-> Spawn(SpawnOrder[i])]
            \o [i \in 1..Len(SpawnOrder) |-> On(SpawnOrder[i])]
  /\ out' = <<>>
  /\ err' = <<Log("error.message")>>
  /\ ev' = Event("throw", Self, <<>>, NoCode)
  /\ UNCHANGED <<pluginDir, nforked, server, exitEvents, triggers, restartsBy>>

\* watch() throws at its k-th spawn: main reports the message and exits with
\* code 1.  The watchers spawned before the throw stay as they are.
WatchThrows(k) ==
  /\ pc = "start"
  /\ k \in 1..Len(SpawnOrder)
  /\ pc' = "exited"
  /\ exitCode' = 1
  /\ spawned' = {SpawnOrder[i] : i \in 1..(k - 1)}
  /\ running' = {SpawnOrder[i] : i \in 1..(k - 1)}
  /\ ops' = [i \in 1..(k - 1) |-> Spawn(SpawnOrder[i])] \o <<ProcessExit(1)>>
  /\ out' = <<>>
  /\ err' = <<Log("error.message")>>
  /\ ev' = Event("throw", Self, <<>>, NoCode)
  /\ UNCHANGED <<pluginDir, nforked, server, exitEvents, listeners, triggers, restartsBy>>

\* ------------------------------------------------------------ restart
\* What restartServer writes on standard output.
RestartOut == <<Entry("[server] spawned process", <<>>, nforked + 1)>>

\* restartServer without the kill of the slot's occupant.
RestartServerNoKill(by) ==
  LET s == Srv(nforked + 1) IN
  /\ nforked < MaxServers
  /\ ops' = ops \o <<Fork(s), On(s), Assign(s)>>
  /\ nforked' = nforked + 1
  /\ running' = running \cup {s}
  /\ listeners' = listeners \cup {s}
  /\ server' = s
  /\ restartsBy' = [restartsBy EXCEPT ![by] = @ + 1]

\* restartServer with the kill after the assignment: it hits the new server.
RestartServerKillsNew(by) ==
  LET s == Srv(nforked + 1) IN
  /\ nforked < MaxServers
  /\ ops' = ops \o <<Fork(s), On(s), Assign(s), Kill(s)>>
  /\ nforked' = nforked + 1
  /\ running' = running \cup {s}
  /\ listeners' = listeners \cup {s}
  /\ server' = s
  /\ restartsBy' = [restartsBy EXCEPT ![by] = @ + 1]

\* restartServer removing the occupant's listeners before it kills it.
RestartServerDetaches(by) ==
  LET s == Srv(nforked + 1) IN
  /\ nforked < MaxServers
  /\ ops' = ops \o (IF server # Undefined
                      THEN <<RemoveAllListeners(server), Kill(server)>> ELSE <<>>)
                \o <<Fork(s), On(s), Assign(s)>>
  /\ nforked' = nforked + 1
  /\ running' = running \cup {s}
  /\ listeners' = (listeners \ {server}) \cup {s}
  /\ server' = s
  /\ restartsBy' = [restartsBy EXCEPT ![by] = @ + 1]

\* restartServer, called from the line callback of watcher `by`.
RestartServer(by) ==
  LET s == Srv(nforked + 1) IN
  /\ nforked < MaxServers
  /\ ops' = ops \o (IF server # Undefined THEN <<Kill(server)>> ELSE <<>>)
                \o <<Fork(s), On(s), Assign(s)>>
  /\ nforked' = nforked + 1
  /\ running' = running \cup {s}
  /\ listeners' = listeners \cup {s}
  /\ server' = s
  /\ restartsBy' = [restartsBy EXCEPT ![by] = @ + 1]

NoRestart == UNCHANGED <<ops, nforked, running, listeners, server, restartsBy>>

\* The vscode callback matching the type checker's phrase.
VscodeLineWrongPhrase(line, original) ==
  IF Includes(line, WATCHING)
    THEN /\ RestartServer(vscode)
         /\ out' = <<Echo("[vscode]", original)>> \o RestartOut
    ELSE /\ NoRestart
         /\ out' = <<Echo("[vscode]", original)>>

\* onLine(vscode, ...)
VscodeLine(line, original) ==
  IF Includes(line, FIN)
    THEN /\ RestartServer(vscode)
         /\ out' = <<Echo("[vscode]", original)>> \o RestartOut
    ELSE /\ NoRestart
         /\ out' = <<Echo("[vscode]", original)>>

\* The tsc callback testing the original text, not the trimmed line, for blankness.
TscLineTestsOriginal(line, original) ==
  LET echo == IF original # <<>> THEN <<Echo("[tsc]", original)>> ELSE <<>> IN
  IF Includes(line, WATCHING)
    THEN /\ RestartServer(tsc)
         /\ out' = echo \o RestartOut
    ELSE /\ NoRestart
         /\ out' = echo

\* onLine(tsc, ...)
TscLine(line, original) ==
  LET echo == IF line # <<>> THEN <<Echo("[tsc]", original)>> ELSE <<>> IN
  IF Includes(line, WATCHING)
    THEN /\ RestartServer(tsc)
         /\ out' = echo \o RestartOut
    ELSE /\ NoRestart
         /\ out' = echo

\* onLine(plugin, ...)
PluginLine(line, original) ==
  LET echo == IF line # <<>> THEN <<Echo("[plugin]", original)>> ELSE <<>> IN
  IF Includes(line, WATCHING)
    THEN /\ RestartServer(plugin)
         /\ out' = echo \o RestartOut
    ELSE /\ NoRestart
         /\ out' = echo

\* The watchers whose standard output has a line callback.
LineWatchers == {vscode, tsc} \cup (IF plugin \in spawned THEN {plugin} ELSE {})

\* The phrase that makes a line of watcher w a restart trigger.
TriggerPhrase(w) == IF w = vscode THEN FIN ELSE WATCHING

\* The line reader delivers one line of watcher w: the callback gets the
\* trimmed line and the original text.
OnLine(w, original) ==
  /\ pc = "running"
  /\ w \in LineWatchers
  /\ CASE w = vscode -> VscodeLine(Trim(original), original)
       [] w = tsc -> TscLine(Trim(original), original)
       [] w = plugin -> PluginLine(Trim(original), original)
  /\ err' = <<>>
  /\ ev' = Event("line", w, original, NoCode)
  /\ triggers' = [triggers EXCEPT
                    ![w] = @ + IF Includes(original, TriggerPhrase(w)) THEN 1 ELSE 0]
  /\ UNCHANGED <<pc, exitCode, pluginDir, spawned, exitEvents>>

\* The web-extension watcher writing a line on its standard output, were
\* it read with the editor-source watcher's callback.
WebExtensionsStdoutAsVscode(original) ==
  /\ pc = "running"
  /\ vscodeWebExtensions \in spawned
  /\ VscodeLine(Trim(original), original)
  /\ err' = <<>>
  /\ ev' = Event("stdout", vscodeWebExtensions, original, NoCode)
  /\ UNCHANGED <<pc, exitCode, pluginDir, spawned, exitEvents, triggers>>

\* The web-extension watcher writes a line on its standard output: no
\* onLine is registered for it, so no callback runs and nothing is written.
WebExtensionsStdout(original) ==
  /\ pc = "running"
  /\ vscodeWebExtensions \in spawned
  /\ out' = <<>>
  /\ err' = <<>>
  /\ ev' = Event("stdout", vscodeWebExtensions, original, NoCode)
  /\ UNCHANGED <<pc, exitCode, pluginDir, spawned, nforked, server, running, exitEvents,
                 listeners, ops, triggers, restartsBy>>

\* stderr "data" of watcher w: the chunk is written on standard error.
StderrData(w, d) ==
  /\ pc = "running"
  /\ w \in spawned
  /\ err' = <<Log(d)>>
  /\ out' = <<>>
  /\ ev' = Event("stderr", w, <<>>, NoCode)
  /\ UNCHANGED <<pc, exitCode, pluginDir, spawned, nforked, server, running, exitEvents,
                 listeners, ops, triggers, restartsBy>>

\* cleanup without its server branch.
CleanupOpsSkipsServer ==
  <<RemoveAllListeners(vscode), Kill(vscode)>>
  \o <<RemoveAllListeners(vscodeWebExtensions), Kill(vscodeWebExtensions)>>
  \o <<RemoveAllListeners(tsc), Kill(tsc)>>
  \o (IF plugin \in spawned THEN <<RemoveAllListeners(plugin), Kill(plugin)>> ELSE <<>>)

\* cleanup issuing each termination request before it removes the listeners.
CleanupOpsKillFirst ==
  <<Kill(vscode), RemoveAllListeners(vscode)>>
  \o <<Kill(vscodeWebExtensions), RemoveAllListeners(vscodeWebExtensions)>>
  \o <<Kill(tsc), RemoveAllListeners(tsc)>>
  \o (IF plugin \in spawned THEN <<Kill(plugin), RemoveAllListeners(plugin)>> ELSE <<>>)
  \o (IF server # Undefined THEN <<Kill(server), RemoveAllListeners(server)>> ELSE <<>>)

\* cleanup tearing the server down first.
CleanupOpsServerFirst ==
  (IF server # Undefined THEN <<RemoveAllListeners(server), Kill(server)>> ELSE <<>>)
  \o <<RemoveAllListeners(vscode), Kill(vscode)>>
  \o <<RemoveAllListeners(vscodeWebExtensions), Kill(vscodeWebExtensions)>>
  \o <<RemoveAllListeners(tsc), Kill(tsc)>>
  \o (IF plugin \in spawned THEN <<RemoveAllListeners(plugin), Kill(plugin)>> ELSE <<>>)

\* ------------------------------------------------------------ cleanup
\* The calls cleanup makes on the child processes, in order.
CleanupOps ==
  <<RemoveAllListeners(vscode), Kill(vscode)>>
  \o <<RemoveAllListeners(vscodeWebExtensions), Kill(vscodeWebExtensions)>>
  \o <<RemoveAllListeners(tsc), Kill(tsc)>>
  \o (IF plugin \in spawned THEN <<RemoveAllListeners(plugin), Kill(plugin)>> ELSE <<>>)
  \o (IF server # Undefined THEN <<RemoveAllListeners(server), Kill(server)>> ELSE <<>>)

\* What cleanup writes on standard output.
CleanupOut ==
  <<Log("killing vs code watcher"), Log("killing vs code web extension watcher"),
    Log("killing tsc")>>
  \o (IF plugin \in spawned THEN <<Log("killing plugin")>> ELSE <<>>)
  \o (IF server # Undefined THEN <<Log("killing server")>> ELSE <<>>)
  \o <<Log("killing watch")>>

\* The exit code with the listener's code dropped.
OrZeroDropsCode(code) == 0

\* code || 0
OrZero(code) == IF code = NoCode \/ code = 0 THEN 0 ELSE code

\* cleanup without its process.exit: it returns to the event loop.
CleanupReturns(code) ==
  /\ ops' = ops \o CleanupOps
  /\ listeners' = listeners \ {o[2] : o \in {p \in Range(CleanupOps) : p[1] = "removeAllListeners"}}
  /\ pc' = pc
  /\ exitCode' = exitCode

\* cleanup that exits only once the children it has killed are gone.
CleanupWaits(code) ==
  /\ running \cap (spawned \cup {server}) = {}
  /\ ops' = ops \o CleanupOps \o <<ProcessExit(OrZero(code))>>
  /\ listeners' = listeners \ {o[2] : o \in {p \in Range(CleanupOps) : p[1] = "removeAllListeners"}}
  /\ pc' = "exited"
  /\ exitCode' = OrZero(code)

\* cleanup(code): ends in process.exit, so nothing of the supervisor runs
\* after it.
Cleanup(code) ==
  /\ ops' = ops \o CleanupOps \o <<ProcessExit(OrZero(code))>>
  /\ listeners' = listeners \ {o[2] : o \in {p \in Range(CleanupOps) : p[1] = "removeAllListeners"}}
  /\ pc' = "exited"
  /\ exitCode' = OrZero(code)

\* process.on("SIGINT" / "SIGTERM")
Signal(sig) ==
  /\ pc = "running"
  /\ Cleanup(NoCode)
  /\ out' = CleanupOut
  /\ err' = <<>>
  /\ ev' = Event(sig, Self, <<>>, NoCode)
  /\ UNCHANGED <<pluginDir, spawned, nforked, server, running, exitEvents, triggers,
                 restartsBy>>

\* What a watcher's exit listener logs before it calls cleanup.
Terminated(w) ==
  CASE w = vscode -> "vs code watcher terminated unexpectedly"
    [] w = vscodeWebExtensions -> "vs code extension watcher terminated unexpectedly"
    [] w = tsc -> "tsc terminated unexpectedly"
    [] w = plugin -> "plugin terminated unexpectedly"

\* The "exit" listener of watcher w runs with the code of its exit event.
WatcherExit(w, code) ==
  /\ pc = "running"
  /\ w \in spawned \cap listeners
  /\ w \in exitEvents
  /\ code \in ExitCodes
  /\ exitEvents' = exitEvents \ {w}
  /\ Cleanup(code)
  /\ out' = <<Log(Terminated(w))>> \o CleanupOut
  /\ err' = <<>>
  /\ ev' = Event("exit", w, <<>>, code)
  /\ UNCHANGED <<pluginDir, spawned, nforked, server, running, triggers, restartsBy>>

\* The server's exit listener calling cleanup, as the watchers' listeners do.
ServerExitFatal(n) ==
  /\ pc = "running"
  /\ Srv(n) \in listeners
  /\ Srv(n) \in exitEvents
  /\ exitEvents' = exitEvents \ {Srv(n)}
  /\ Cleanup(NoCode)
  /\ out' = <<Entry("[server] process exited", <<>>, n)>> \o CleanupOut
  /\ err' = <<>>
  /\ ev' = Event("exit", Srv(n), <<>>, NoCode)
  /\ UNCHANGED <<pluginDir, spawned, nforked, server, running, triggers, restartsBy>>

\* The server's exit listener emptying the slot when its server is the occupant.
ServerExitClearsSlot(n) ==
  /\ pc = "running"
  /\ Srv(n) \in listeners
  /\ Srv(n) \in exitEvents
  /\ exitEvents' = exitEvents \ {Srv(n)}
  /\ server' = IF server = Srv(n) THEN Undefined ELSE server
  /\ out' = <<Entry("[server] process exited", <<>>, n)>>
  /\ err' = <<>>
  /\ ev' = Event("exit", Srv(n), <<>>, NoCode)
  /\ UNCHANGED <<pc, exitCode, pluginDir, spawned, nforked, running, listeners,
                 ops, triggers, restartsBy>>

\* The "exit" listener of server Srv(n) runs: it logs and does nothing else.
ServerExit(n) ==
  /\ pc = "running"
  /\ Srv(n) \in listeners
  /\ Srv(n) \in exitEvents
  /\ exitEvents' = exitEvents \ {Srv(n)}
  /\ out' = <<Entry("[server] process exited", <<>>, n)>>
  /\ err' = <<>>
  /\ ev' = Event("exit", Srv(n), <<>>, NoCode)
  /\ UNCHANGED <<pc, exitCode, pluginDir, spawned, nforked, server, running, listeners,
                 ops, triggers, restartsBy>>

\* ------------------------------------------------------------ environment
\* Child h exits, on its own or because of a termination request, and its
\* "exit" event is queued for the supervisor.  The code the event carries is
\* read only by the listener, so it is chosen when the listener runs.
ProcExit(h) ==
  /\ pc = "running"
  /\ h \in running
  /\ running' = running \ {h}
  /\ exitEvents' = exitEvents \cup {h}
  /\ UNCHANGED <<pc, exitCode, pluginDir, spawned, nforked, server, listeners, ops, out,
                 err, ev, triggers, restartsBy>>

\* ------------------------------------------------------------ specification
Next ==
  \/ Watch
  \/ \E k \in 1..4 : WatchThrows(k)
  \/ \E w \in Watchers, original \in Lines : OnLine(w, original)
  \/ \E original \in Lines : WebExtensionsStdout(original)
  \/ \E w \in Watchers, d \in ErrChunks : StderrData(w, d)
  \/ \E sig \in {"SIGINT", "SIGTERM"} : Signal(sig)
  \/ \E w \in Watchers, code \in ExitCodes : WatcherExit(w, code)
  \/ \E n \in 1..MaxServers : ServerExit(n)
  \/ \E h \in Handles : ProcExit(h)

Spec == Init /\ [][Next]_vars

\* ------------------------------------------------------------ properties
\* How often the call `op` has been made.
Count(op) == Cardinality({i \in DOMAIN ops : ops[i] = op})
\* The termination requests issued on handle h.
Kills(h) == Count(Kill(h))
\* The servers forked so far.
Forked == {Srv(n) : n \in 1..nforked}
\* Every child process the supervisor has created.
Children == spawned \cup Forked
\* The callback that ran latest is a signal handler.
BySignal == ev.kind \in {"SIGINT", "SIGTERM"}
\* The callback that ran latest is a watcher's exit listener.
ByWatcherExit == ev.kind = "exit" /\ ev.h \in Watchers

\* C1: whenever a server handle is recorded in the slot, every handle that
\* was recorded in the slot before it has had its termination request
\* issued between its own recording and that of the new handle.
C1_KillBeforeAssign ==
  \A i, j \in DOMAIN ops :
    (j < i /\ ops[i][1] = "assign" /\ ops[j][1] = "assign")
      => \E k \in DOMAIN ops : j < k /\ k < i /\ ops[k] = Kill(ops[j][2])

\* C1 witness: a server has been replaced in the slot.
C1_Witness == nforked >= 2 /\ server = Srv(2) /\ Kills(Srv(1)) = 1

\* C2 as claimed: with the supervisor running, a restart done and no event
\* pending, the slot holds a live server process.
C2_Original ==
  (pc = "running" /\ nforked >= 1 /\ exitEvents = {}) => server \in running

\* C2 amended: while the supervisor runs, the slot is empty before the first
\* restart and afterwards holds exactly the server forked last, on which no
\* termination request has been issued (it is live unless it exited by
\* itself).
C2_SlotHoldsLastForked ==
  pc = "running" =>
    IF nforked = 0 THEN server = Undefined
    ELSE server = Srv(nforked) /\ Kills(server) = 0

\* C2 witness: the slot's server has exited by itself and stays in the slot.
C2_Witness ==
  /\ pc = "running"
  /\ nforked = 2
  /\ server = Srv(2)
  /\ server \notin running
  /\ exitEvents = {}

\* C3: at most one server process is running at any time.
C3_OneServerRunning == Cardinality(running \cap Servers) <= 1

\* C4: when a signal handler has run, the supervisor has exited with code 0
\* and exactly one termination request has been issued on every child it
\* ever created.
C4_SignalTeardown ==
  BySignal =>
    /\ pc = "exited"
    /\ exitCode = 0
    /\ \A h \in Children : Kills(h) = 1

\* C4 witness: a signal after two restarts and the exit of a server.
C4_Witness ==
  /\ ev.kind = "SIGTERM"
  /\ pc = "exited"
  /\ nforked = 2
  /\ Srv(2) \notin running
  /\ plugin \in spawned

\* C5: when the exit listener of a watcher has run, the supervisor has
\* exited with the code of the exit event (0 when it carried none), and a
\* termination request has been issued on every other watcher and on the
\* slot's server.
C5_WatcherExitTeardown ==
  ByWatcherExit =>
    /\ pc = "exited"
    /\ exitCode = (IF ev.code = NoCode THEN 0 ELSE ev.code)
    /\ \A h \in spawned \ {ev.h} : Kills(h) >= 1
    /\ server # Undefined => Kills(server) >= 1

\* C5 witness: the type checker exited with code 2 while a server was in the slot.
C5_Witness ==
  /\ ev.kind = "exit"
  /\ ev.h = tsc
  /\ ev.code = 2
  /\ exitCode = 2
  /\ server = Srv(1)

\* The entries of the latest callback's output that carry tag t.
Tagged(t) == {i \in DOMAIN out : out[i].tag = t}
\* The latest callback is the line callback of watcher w.
ByLine(w) == ev.kind = "line" /\ ev.h = w
\* The line has nothing but whitespace in it.
Blank(l) == \A i \in DOMAIN l : l[i] = SP

\* C6: the restarts made for the editor-source watcher are as many as its
\* lines that contain "Finished compilation", and each of its lines makes
\* one restart if it contains the phrase and none otherwise.
C6_RestartPerFinishedLine ==
  /\ restartsBy[vscode] = triggers[vscode]
  /\ ByLine(vscode) =>
       Cardinality(Tagged("[server] spawned process"))
         = (IF Includes(ev.line, FIN) THEN 1 ELSE 0)

\* C6 witness: two lines with the phrase have made two restarts, the second
\* one killing the first server.
C6_Witness ==
  /\ ByLine(vscode)
  /\ ev.line = <<SP, FIN, TXT>>
  /\ restartsBy[vscode] = 2
  /\ Kills(Srv(1)) = 1

\* C7: a line of the type checker or of the plugin watcher that is blank
\* once trimmed is not echoed and makes no restart; any other line is echoed
\* once, with the watcher's tag and its original text; a line makes one
\* restart if it contains "Watching for file changes" and none otherwise.
C7_TscPluginLines ==
  /\ \A w \in {tsc, plugin} : restartsBy[w] = triggers[w]
  /\ \A w \in {tsc, plugin} :
       ByLine(w) =>
         /\ Blank(ev.line) => out = <<>>
         /\ ~Blank(ev.line) =>
              /\ Tagged(Tag(w)) = {1}
              /\ out[1] = Echo(Tag(w), ev.line)
         /\ Cardinality(Tagged("[server] spawned process"))
              = (IF Includes(ev.line, WATCHING) THEN 1 ELSE 0)

\* C7 witness: a whitespace-only line of the type checker left no output.
C7_Witness ==
  /\ ByLine(tsc)
  /\ ev.line = <<SP>>
  /\ out = <<>>
  /\ restartsBy[tsc] = 1

\* C8: with PLUGIN_DIR unset there is no plugin process, no call on a
\* plugin handle, no plugin-tagged or plugin-kill output and no restart by
\* the plugin watcher, and cleanup still kills the built-in watchers and
\* exits.
C8_NoPlugin ==
  ~pluginDir =>
    /\ plugin \notin (spawned \cup running \cup listeners \cup exitEvents)
    /\ \A i \in DOMAIN ops : ops[i][2] # plugin
    /\ Tagged("[plugin]") \cup Tagged("killing plugin")
         \cup Tagged("plugin terminated unexpectedly") = {}
    /\ ev.h # plugin
    /\ restartsBy[plugin] = 0
    /\ (BySignal \/ ByWatcherExit) =>
         /\ pc = "exited"
         /\ \A w \in BuiltinWatchers : Kills(w) = 1
         /\ ops[Len(ops)][1] = "exit"

\* C8 witness: cleanup has run without a plugin watcher and with a server.
C8_Witness ==
  /\ ~pluginDir
  /\ BySignal
  /\ pc = "exited"
  /\ server # Undefined

\* C9: the step that dispatches a server's exit event leaves the supervisor
\* running, makes no process-control call, changes neither the slot nor the
\* listeners nor the set of servers, and writes only the log line; and the
\* number of servers grows only in the line callback of a trigger line.
C9_ServerExitOnlyLogged ==
  [][/\ (\E s \in Servers : s \in exitEvents /\ s \notin exitEvents') =>
          /\ pc' = "running"
          /\ exitCode' = NoCode
          /\ UNCHANGED <<server, nforked, ops, running, listeners, spawned>>
          /\ \E n \in 1..MaxServers : out' = <<Entry("[server] process exited", <<>>, n)>>
     /\ nforked' # nforked =>
          /\ ev'.kind = "line"
          /\ Includes(ev'.line, TriggerPhrase(ev'.h))
    ]_vars

\* C9 witness: the slot's server has exited, its exit has been logged, the
\* supervisor runs on and no watcher has been sent a termination request.
C9_Witness ==
  /\ pc = "running"
  /\ ev.kind = "exit"
  /\ ev.h = server
  /\ server \notin running
  /\ \A w \in spawned : Kills(w) = 0

\* C10: process.exit is called at most once, no handle has its listeners
\* removed or a termination request issued more than once, and a cleanup
\* that has started has run to its process.exit, whatever children had
\* exited before.
C10_CleanupOnce ==
  /\ Cardinality({i \in DOMAIN ops : ops[i][1] = "exit"}) <= 1
  /\ \A h \in Handles : Count(RemoveAllListeners(h)) <= 1 /\ Kills(h) <= 1
  /\ (BySignal \/ ByWatcherExit) =>
       /\ pc = "exited"
       /\ ops[Len(ops)][1] = "exit"
       /\ Cardinality(Tagged("killing watch")) = 1
       /\ \A w \in spawned : Count(RemoveAllListeners(w)) = 1 /\ Kills(w) = 1

\* C10 witness: two watchers had exited; the listener of one ran cleanup,
\* which issued a termination request on the other, whose exit event stays
\* undispatched.
C10_Witness ==
  /\ pc = "exited"
  /\ ByWatcherExit
  /\ \E w \in spawned \ {ev.h} : w \in exitEvents /\ w \notin running /\ Kills(w) = 1

\* Cleanup has started: its first call has been made.
Stopping == Count(RemoveAllListeners(vscode)) >= 1
\* The children cleanup tears down: the watchers and the slot's server.
CleanupTargets == spawned \cup ({server} \ {Undefined})

\* C11: once cleanup has run, every watcher and the slot's server has had
\* its listeners removed in the call just before its termination request,
\* has no listener left, and no callback has run since the one that called
\* cleanup.
C11_DetachBeforeKill ==
  /\ \A i \in DOMAIN ops :
       (ops[i][1] = "kill" /\ i > 1 /\ \E j \in 1..(i - 1) : ops[j][1] = "removeAllListeners")
         => ops[i - 1] = RemoveAllListeners(ops[i][2])
  /\ Stopping =>
       /\ \A h \in CleanupTargets :
            /\ Count(RemoveAllListeners(h)) = 1
            /\ h \notin listeners
       /\ BySignal \/ ByWatcherExit
       /\ Tagged("[server] process exited") = {}

\* C11 witness: cleanup has run with a plugin watcher and a server in the
\* slot whose process was still running.
C11_Witness ==
  /\ Stopping
  /\ plugin \in spawned
  /\ server = Srv(1)
  /\ server \in running
  /\ ByWatcherExit

\* The servers that have been replaced in the slot.
Replaced == Forked \ {server}

\* C12 as claimed: the supervisor holds no listener on a replaced server.
C12_Original == \A s \in Replaced : s \notin listeners

\* C12 amended: a restart removes only the slot's reference to the replaced
\* server: the server has had one termination request and no
\* removeAllListeners, and its exit listener stays attached (so its later
\* exit is still logged).
C12_ReplacedKeepsListener ==
  \A s \in Replaced :
    /\ s \in listeners
    /\ Kills(s) = 1
    /\ Count(RemoveAllListeners(s)) = 0

\* C12 witness: the exit of a replaced server has been logged by its
\* listener while its successor is in the slot.
C12_Witness ==
  /\ pc = "running"
  /\ server = Srv(2)
  /\ ev.kind = "exit"
  /\ ev.h = Srv(1)
  /\ out = <<Entry("[server] process exited", <<>>, 1)>>

\* C13: whatever children are running, a signal handler can run cleanup to
\* its end in one callback; and once cleanup has started the supervisor has
\* exited, process.exit being the last call made, with no child's exit
\* awaited.
C13_CleanupNeverWaits ==
  /\ pc = "running" => ENABLED Signal("SIGTERM")
  /\ Stopping =>
       /\ pc = "exited"
       /\ ops[Len(ops)] = ProcessExit(exitCode)
       /\ \A i \in DOMAIN ops : ops[i][1] = "kill" => i < Len(ops)

\* C13 witness: the supervisor has exited while every child it created,
\* the replaced server included, is still running.
C13_Witness ==
  /\ pc = "exited"
  /\ BySignal
  /\ nforked = 2
  /\ Children \subseteq running
  /\ exitEvents = {}

\* C14: when watch() has thrown, the error's message is the one write on
\* standard error, the supervisor has exited with code 1 by the last call
\* made, and no watcher has been spawned a second time.
C14_StartupFailure ==
  ev.kind = "throw" =>
    /\ pc = "exited"
    /\ exitCode = 1
    /\ err = <<Log("error.message")>>
    /\ out = <<>>
    /\ ops[Len(ops)] = ProcessExit(1)
    /\ \A w \in Watchers : Count(Spawn(w)) <= 1
    /\ nforked = 0

\* C14 witness: watch() threw at its third spawn.
C14_Witness ==
  /\ ev.kind = "throw"
  /\ spawned = {vscode, vscodeWebExtensions}
  /\ exitCode = 1

IsKill(o) == o[1] = "kill"
\* The calls made since the first removeAllListeners, which only cleanup makes.
CleanupCalls ==
  LET start == CHOOSE i \in DOMAIN ops :
                 /\ ops[i][1] = "removeAllListeners"
                 /\ \A j \in 1..(i - 1) : ops[j][1] # "removeAllListeners"
  IN SubSeq(ops, start, Len(ops))
\* The handles cleanup issued its termination requests on, in order.
CleanupKillOrder ==
  LET kills == SelectSeq(CleanupCalls, IsKill)
  IN [i \in DOMAIN kills |-> kills[i][2]]

\* C15: the termination requests of cleanup go to the editor-source watcher,
\* the web-extension watcher, the type checker, the plugin watcher if there
\* is one and the slot's server if there is one, in this order, and
\* process.exit is the call after the last of them.
C15_CleanupOrder ==
  (BySignal \/ ByWatcherExit) =>
    /\ CleanupKillOrder =
         <<vscode, vscodeWebExtensions, tsc>>
         \o (IF plugin \in spawned THEN <<plugin>> ELSE <<>>)
         \o (IF server # Undefined THEN <<server>> ELSE <<>>)
    /\ CleanupCalls[Len(CleanupCalls)][1] = "exit"
    /\ CleanupCalls[Len(CleanupCalls) - 1][1] = "kill"

\* C15 witness: cleanup has killed all four watchers and then the second server.
C15_Witness ==
  /\ ev.kind = "SIGINT"
  /\ CleanupKillOrder = <<vscode, vscodeWebExtensions, tsc, plugin, Srv(2)>>

\* C16: a step that takes the supervisor out of "running" is a signal
\* handler or a watcher's exit listener and ends in "exited"; once cleanup
\* has started the supervisor has exited, and from then on no step forks or
\* spawns, changes the slot, makes a call or brings it back to "running".
C16_StoppingIsTerminal ==
  [][/\ (pc = "running" /\ pc' # "running") =>
          /\ pc' = "exited"
          /\ ev'.kind \in {"SIGINT", "SIGTERM"} \/ (ev'.kind = "exit" /\ ev'.h \in Watchers)
     /\ Stopping' => pc' = "exited"
     /\ (Stopping \/ pc = "exited") =>
          /\ pc' = "exited"
          /\ UNCHANGED <<nforked, server, spawned, ops, listeners, out, ev>>
     /\ Stopping' /\ ~Stopping => pc = "running"
    ]_vars

\* C16 witness: the supervisor has exited with exit events of a watcher and
\* of the slot's server still undispatched.
C16_Witness ==
  /\ pc = "exited"
  /\ Stopping
  /\ server \in exitEvents
  /\ tsc \in exitEvents
  /\ ev.kind = "SIGINT"

\* C17: a step changes the slot only as the line callback of a trigger
\* line, and then it makes exactly the calls kill (of the occupant, if
\* any), fork, on, assign, puts the server it forked in the slot and leaves
\* the watchers, their listeners and their processes as they were; servers
\* are forked in no other step, watchers are spawned only by watch(), and
\* the slot always holds the server forked last.
C17_OnlyRestartChangesSlot ==
  [][/\ server' # server =>
          /\ ev'.kind = "line"
          /\ Includes(ev'.line, TriggerPhrase(ev'.h))
          /\ nforked' = nforked + 1
          /\ ops' = ops \o (IF server # Undefined THEN <<Kill(server)>> ELSE <<>>)
                       \o <<Fork(server'), On(server'), Assign(server')>>
          /\ spawned' = spawned
          /\ listeners' \cap Watchers = listeners \cap Watchers
          /\ running' \cap Watchers = running \cap Watchers
     /\ nforked' # nforked => server' # server
     /\ spawned' # spawned => pc = "start"
     /\ server' = (IF nforked' = 0 THEN Undefined ELSE Srv(nforked'))
    ]_vars

\* C17 witness: the type checker's trigger line made the second restart,
\* after a line without a trigger, with all four watchers untouched.
C17_Witness ==
  /\ ByLine(tsc)
  /\ server = Srv(2)
  /\ restartsBy[vscode] = 1
  /\ spawned = Watchers
  /\ spawned \subseteq listeners
  /\ \A w \in spawned : Kills(w) = 0

\* C18: every forked server on which no termination request has been
\* issued is the slot's occupant, so there is at most one such server.
C18_OneUnsignalledServer ==
  /\ \A s \in Forked : Kills(s) = 0 => s = server
  /\ Cardinality({s \in Forked : Kills(s) = 0}) <= 1

\* C18 witness: the first server has been sent its termination request and
\* still runs beside the second, which has not been sent one.
C18_Witness ==
  /\ pc = "running"
  /\ Kills(Srv(1)) = 1
  /\ Kills(Srv(2)) = 0
  /\ {Srv(1), Srv(2)} \subseteq running

\* C19: a standard-output line of the web-extension watcher, whatever it
\* contains, writes nothing, makes no call, forks no server and changes
\* neither the slot nor the listeners; the only callbacks of that watcher
\* are its stderr passthrough, which only writes the chunk on standard
\* error, and its exit listener, which runs cleanup; it makes no restart.
C19_WebExtensionsLinesIgnored ==
  [][/\ ev'.kind = "stdout" =>
          /\ ev'.h = vscodeWebExtensions
          /\ out' = <<>>
          /\ err' = <<>>
          /\ UNCHANGED <<pc, exitCode, server, nforked, ops, listeners, spawned, restartsBy>>
     /\ (ev' # ev /\ ev'.h = vscodeWebExtensions) =>
          /\ ev'.kind \in {"stdout", "stderr", "exit"}
          /\ ev'.kind = "stderr" =>
               /\ out' = <<>>
               /\ \E d \in ErrChunks : err' = <<Log(d)>>
               /\ UNCHANGED <<pc, exitCode, server, nforked, ops, listeners, spawned>>
          /\ ev'.kind = "exit" => pc' = "exited" /\ Stopping'
     /\ restartsBy'[vscodeWebExtensions] = 0
    ]_vars

\* C19 witness: a line with both trigger phrases from the web-extension
\* watcher has left the slot empty and the output blank.
C19_Witness ==
  /\ ev.kind = "stdout"
  /\ ev.line = <<FIN, WATCHING>>
  /\ pc = "running"
  /\ nforked = 0
  /\ out = <<>>

====
